---------------------------- MODULE Spec2Model ----------------------------
(***************************************************************************)
(* A model of equations.py: parentheses_combos, equations, parentheses,    *)
(* parentheses_with_unary and solve.                                       *)
(*                                                                         *)
(* A Python str is a sequence of one-character strings, so that ''.join,   *)
(* += on strings and str() are modelled by what they do.  A tuple (l, r)   *)
(* is <<l, r>>, a frozenset is a set, a list is a sequence, a dict is a    *)
(* function on its keys.                                                   *)
(***************************************************************************)
EXTENDS Integers, Sequences, FiniteSets, TLC

VARIABLES
    entry,                   \* the function the caller calls
    last,                    \* parentheses_combos: argument `last`
    goals,                   \* solve: argument `goals` (scalar or collection)
    goal_list,               \* solve: the local `goals` after lines 149-152
    numbers,                 \* argument `numbers`
    operations,              \* argument `operations`
    unary,                   \* argument `unary` (a function name, or "None")
    singles,                 \* keyword argument
    insert_paras,            \* keyword argument
    fixed_order,             \* keyword argument
    max_consecutive_powers,  \* keyword argument
    max_factorials,          \* keyword argument
    iteration_order,         \* the order this process iterates a set in
    pc,                      \* "call", "loop", "returned", "raised"
    combos,                  \* parentheses_combos: the returned set
    eqs,                     \* equations: the returned list
    index,                   \* solve: position of the for loop in eqs
    hits,                    \* solve: the dict of hits
    exception                \* the exception that left the call, or "None"

vars == <<entry, last, goals, numbers, operations, unary, singles,
          insert_paras, fixed_order, max_consecutive_powers, max_factorials,
          iteration_order, pc, combos, goal_list, eqs, index, hits, exception>>

args == <<entry, last, goals, numbers, operations, unary, singles,
          insert_paras, fixed_order, max_consecutive_powers, max_factorials,
          iteration_order>>

-----------------------------------------------------------------------------
(* Bounds of the model. *)

\* parentheses_combos is called directly with last in 0..MaxLast
MaxLast == 5
\* max_consecutive_powers is drawn from 0..MaxPowers
MaxPowers == 2
\* max_factorials is drawn from 0..MaxFactorialsArg
MaxFactorialsArg == 2

-----------------------------------------------------------------------------
(* Generic helpers: sequences, sets, strings. *)

Range(s) == {s[i] : i \in DOMAIN s}

RECURSIVE Flatten(_)
\* ''.join(list of str): the concatenation of a list of strings
Flatten(ss) == IF ss = <<>> THEN <<>> ELSE Head(ss) \o Flatten(Tail(ss))

RECURSIVE FlatMap(_, _)
\* the list built by a loop over s whose body appends the items of F(x)
FlatMap(F(_), s) == IF s = <<>> THEN <<>> ELSE F(Head(s)) \o FlatMap(F, Tail(s))

\* lexicographic order on tuples of integers
RECURSIVE LexLess(_, _)
LexLess(a, b) ==
    IF a = <<>> THEN b # <<>>
    ELSE IF b = <<>> THEN FALSE
    ELSE IF Head(a) # Head(b) THEN Head(a) < Head(b)
    ELSE LexLess(Tail(a), Tail(b))

\* the members of a set of integer tuples, ascending
RECURSIVE SortedAsc(_)
SortedAsc(S) ==
    IF S = {} THEN <<>>
    ELSE LET m == CHOOSE x \in S : \A y \in S : y = x \/ LexLess(x, y)
         IN  <<m>> \o SortedAsc(S \ {m})

Reverse(s) == [i \in 1..Len(s) |-> s[Len(s) + 1 - i]]

-----------------------------------------------------------------------------
(* parentheses_combos, lines 11-43. *)

\* more_itertools.partitions(range(first, last)): every split of the range
\* into contiguous groups; a partition is given by its set of cut points,
\* and a group by <<its first element, its last element + 1>>.
Partitions(first, lst) ==
    IF lst <= first THEN {{}} ELSE SUBSET ((first + 1)..(lst - 1))

GroupsOf(cuts, first, lst) ==
    IF lst <= first THEN {<<first, first>>}
    ELSE {<<a, b>> \in (cuts \cup {first}) \X (cuts \cup {lst}) :
              a < b /\ \A c \in cuts : ~(a < c /\ c < b)}

\* line 26: the partitions the loop does not skip
KeepPartition(n_groups, size) == 1 < n_groups /\ n_groups < size

RECURSIVE parentheses_combos(_, _)
RECURSIVE ProductUnion(_)

\* lines 41-42: frozenset.union(*combo) for combo in product(*alternatives)
ProductUnion(alternatives) ==
    IF alternatives = <<>> THEN {{}}
    ELSE {a \cup rest : a \in Head(alternatives),
                        rest \in ProductUnion(Tail(alternatives))}

\* lines 29-31 alone: the group's own pair, nothing nested inside it
AlternativesWithoutNesting(group) == {{<<group[1], group[2]>>}}

\* lines 29-39: the alternatives of one group of at least 2 elements
Alternatives(group) ==
    LET left  == group[1]
        right == group[2]
    IN  {{<<left, right>>}}
        \cup (IF right - left > 2
              THEN {{<<left, right>>} \cup subcombo :
                        subcombo \in parentheses_combos(right, left)}
              ELSE {})

parentheses_combos(lst, first) ==
    LET size == lst - first
        OfPartition(cuts) ==
            LET groups == GroupsOf(cuts, first, lst)
                big    == {g \in groups : g[2] - g[1] >= 2}
            IN  IF ~KeepPartition(Cardinality(groups), size) THEN {}
                ELSE ProductUnion([i \in 1..Cardinality(big) |->
                                       Alternatives(SortedAsc(big)[i])])
    IN  {{}} \cup UNION {OfPartition(cuts) : cuts \in Partitions(first, lst)}

-----------------------------------------------------------------------------
(* Strings and the library functions equations() uses. *)

DigitChar == <<"0", "1", "2", "3", "4", "5", "6", "7", "8", "9">>

Digits == Range(DigitChar)

RECURSIVE Str(_)
\* str(number) of an int, line 52
Str(n) ==
    IF n < 0 THEN <<"-">> \o Str(-n)
    ELSE IF n < 10 THEN <<DigitChar[n + 1]>>
    ELSE Str(n \div 10) \o <<DigitChar[(n % 10) + 1]>>

\* the code point order of the characters str(number) is made of
Ord(c) == IF c = "-" THEN 0 ELSE CHOOSE i \in 1..10 : DigitChar[i] = c

\* a < b for two str, as Python compares them
StrLess(a, b) ==
    LexLess([j \in DOMAIN a |-> Ord(a[j])], [j \in DOMAIN b |-> Ord(b[j])])

RECURSIVE TokensLess(_, _)
\* a < b for two tuples of str, as Python compares them
TokensLess(a, b) ==
    IF a = <<>> THEN b # <<>>
    ELSE IF b = <<>> THEN FALSE
    ELSE IF Head(a) # Head(b) THEN StrLess(Head(a), Head(b))
    ELSE TokensLess(Tail(a), Tail(b))

RECURSIVE SortedTokens(_)
SortedTokens(S) ==
    IF S = {} THEN <<>>
    ELSE LET m == CHOOSE x \in S : \A y \in S : y = x \/ TokensLess(x, y)
         IN  <<m>> \o SortedTokens(S \ {m})

RECURSIVE AllPermutations(_)
\* every ordering of the items, a repeated item counted once per position
AllPermutations(tokens) ==
    IF tokens = <<>> THEN <<<<>>>>
    ELSE FlatMap(LAMBDA i :
                    LET rest == [j \in 1..(Len(tokens) - 1) |->
                                    IF j < i THEN tokens[j] ELSE tokens[j + 1]]
                    IN  [k \in 1..Len(AllPermutations(rest)) |->
                            <<tokens[i]>> \o AllPermutations(rest)[k]],
                 [i \in 1..Len(tokens) |-> i])

\* more_itertools.distinct_permutations(tokens): every distinct ordering of
\* the items once, in lexicographic order
distinct_permutations(tokens) ==
    LET n == Len(tokens)
        perms == {p \in [1..n -> 1..n] : \A i, j \in 1..n : p[i] = p[j] => i = j}
    IN  SortedTokens({[i \in 1..n |-> tokens[p[i]]] : p \in perms})

RECURSIVE product(_, _)
\* itertools.product(alphabet, repeat=k), k >= 0, in the order it yields
product(alphabet, k) ==
    IF k = 0 THEN <<<<>>>>
    ELSE FlatMap(LAMBDA prefix : [i \in 1..Len(alphabet) |-> prefix \o <<alphabet[i]>>],
                 product(alphabet, k - 1))

\* the fill value None of more_itertools.windowed: equal to no str
NoneFill == <<"None">>

\* more_itertools.windowed(seq, n): the set of its windows
windowed(seq, n) ==
    IF n = 0 THEN {<<>>}
    ELSE IF Len(seq) = 0 THEN {}
    ELSE IF Len(seq) < n
         THEN {seq \o [i \in 1..(n - Len(seq)) |-> NoneFill]}
         ELSE {SubSeq(seq, i, i + n - 1) : i \in 1..(Len(seq) - n + 1)}

RECURSIVE roundrobin(_, _)
\* more_itertools.roundrobin(a, b): the items of a and b in turn
roundrobin(a, b) ==
    IF a = <<>> THEN b
    ELSE <<Head(a)>> \o roundrobin(b, Tail(a))

RECURSIVE combinations(_, _)
\* itertools.combinations(s, r), in the order it yields
combinations(s, r) ==
    IF r = 0 THEN <<<<>>>>
    ELSE IF Len(s) < r THEN <<>>
    ELSE [i \in 1..Len(combinations(Tail(s), r - 1)) |->
             <<Head(s)>> \o combinations(Tail(s), r - 1)[i]]
         \o combinations(Tail(s), r)

\* more_itertools.powerset(s): the combinations of every size, smallest first
powerset(s) == FlatMap(LAMBDA r : combinations(s, r), [i \in 1..(Len(s) + 1) |-> i - 1])

\* list.insert(i, x) for i >= 0: before position i, at the end when i > len
Insert(list, i, x) ==
    LET k == IF i > Len(list) THEN Len(list) ELSE i
    IN  SubSeq(list, 1, k) \o <<x>> \o SubSeq(list, k + 1, Len(list))

\* the order a frozenset of pairs is iterated in: CPython fixes it by the
\* hashes and the history of the set, the code does not choose it
IterPairs(S) ==
    IF iteration_order = "ascending" THEN SortedAsc(S) ELSE Reverse(SortedAsc(S))

\* the order a set of frozensets of pairs is iterated in
IterCombos(SS) ==
    LET Key(c) == Flatten(SortedAsc(c))
        keys   == SortedAsc({Key(c) : c \in SS})
        sorted == [i \in 1..Len(keys) |-> CHOOSE c \in SS : Key(c) = keys[i]]
    IN  IF iteration_order = "ascending" THEN sorted ELSE Reverse(sorted)

\* dict access with the defaultdict(str) default, lines 100 and 113
Get(d, k) == IF k \in DOMAIN d THEN d[k] ELSE <<>>

Put(d, k, v) == [x \in (DOMAIN d) \cup {k} |-> IF x = k THEN v ELSE d[x]]

\* sorted(paras.items()) without the reversal: ascending offsets
SortedItems(d) ==
    LET keys == SortedAsc({<<k>> : k \in DOMAIN d})
    IN  [i \in 1..Len(keys) |-> <<keys[i][1], d[keys[i][1]]>>]

\* list(reversed(sorted(paras.items()))), lines 104 and 125
ReverseSortedItems(d) ==
    LET keys == Reverse(SortedAsc({<<k>> : k \in DOMAIN d}))
    IN  [i \in 1..Len(keys) |-> <<keys[i][1], d[keys[i][1]]>>]

-----------------------------------------------------------------------------
(* parentheses, lines 94-104, and parentheses_with_unary, lines 107-125. *)

\* the offset of the closing parenthesis of a pair, lines 103, 117, 124
CloseOffset(right) == right * 2 - 1

RECURSIVE ParasLoop(_, _)
\* lines 101-103 over the pairs in iteration order
ParasLoop(paras, pairs) ==
    IF pairs = <<>> THEN paras
    ELSE LET left  == Head(pairs)[1]
             right == Head(pairs)[2]
             p1 == Put(paras, left * 2, Get(paras, left * 2) \o <<"(">>)
             p2 == Put(p1, CloseOffset(right), Get(p1, CloseOffset(right)) \o <<")">>)
         IN  ParasLoop(p2, Tail(pairs))

parentheses(para_combo) ==
    ReverseSortedItems(ParasLoop(<<>>, IterPairs(para_combo)))

\* the name of the function and its opening parenthesis: f'{unary.__name__}('
NameOf(un) ==
    CASE un = "neg"       -> <<"n", "e", "g">>
      [] un = "floor"     -> <<"f", "l", "o", "o", "r">>
      [] un = "factorial" -> <<"f", "a", "c", "t", "o", "r", "i", "a", "l">>
      [] un = "log"       -> <<"l", "o", "g">>

UnaryOpen(un) == NameOf(un) \o <<"(">>

RECURSIVE UnaryParasLoop(_, _, _, _)
\* lines 114-117 over the pairs in iteration order
UnaryParasLoop(paras, pairs, para_combo2, un) ==
    IF pairs = <<>> THEN paras
    ELSE LET pair  == Head(pairs)
             left  == pair[1]
             right == pair[2]
             open  == IF pair \in Range(para_combo2) THEN UnaryOpen(un) ELSE <<"(">>
             p1 == Put(paras, left * 2, Get(paras, left * 2) \o open)
             p2 == Put(p1, CloseOffset(right), Get(p1, CloseOffset(right)) \o <<")">>)
         IN  UnaryParasLoop(p2, Tail(pairs), para_combo2, un)

RECURSIVE SinglesLoop(_, _, _)
\* lines 121-124 over the pairs in iteration order
SinglesLoop(paras, pairs, un) ==
    IF pairs = <<>> THEN paras
    ELSE LET left  == Head(pairs)[1]
             right == Head(pairs)[2]
             p1 == Put(paras, left * 2, Get(paras, left * 2) \o UnaryOpen(un))
             p2 == Put(p1, CloseOffset(right), <<")">> \o Get(p1, CloseOffset(right)))
         IN  SinglesLoop(p2, Tail(pairs), un)

parentheses_with_unary(para_combo, para_combo2, un, length, single_positions) ==
    LET p1 == UnaryParasLoop(<<>>, IterPairs(para_combo), para_combo2, un)
        p2 == IF <<0, length>> \in Range(para_combo2)
              THEN LET q == Put(p1, 0, UnaryOpen(un) \o Get(p1, 0))
                   IN  Put(q, length * 2 - 1, Get(q, length * 2 - 1) \o <<")">>)
              ELSE p1
        p3 == SinglesLoop(p2, IterPairs(single_positions \cap Range(para_combo2)), un)
    IN  ReverseSortedItems(p3)

-----------------------------------------------------------------------------
(* equations, lines 46-91. *)

PowerOp == <<"*", "*">>
Plus == <<"+">>
Minus == <<"-">>
Times == <<"*">>
Divide == <<"/">>
Concat == <<>>

\* line 62 with a window of max_consecutive_powers
TooManyPowersShortWindow(operations_combo, max_powers) ==
    [i \in 1..max_powers |-> PowerOp] \in windowed(operations_combo, max_powers)

\* line 62: the operator assignments the loop skips
TooManyPowers(operations_combo, max_powers) ==
    [i \in 1..(max_powers + 1) |-> PowerOp]
        \in windowed(operations_combo, max_powers + 1)

RECURSIVE InsertAll(_, _)
\* lines 68-69 and 86-87: for index, para in paras: eq.insert(index, para)
InsertAll(eq, paras) ==
    IF paras = <<>> THEN eq
    ELSE InsertAll(Insert(eq, Head(paras)[1], Head(paras)[2]), Tail(paras))

\* lines 66-70: one equation without unary
Assemble(number_combo, operations_combo, para_combo) ==
    Flatten(InsertAll(roundrobin(number_combo, operations_combo),
                      parentheses(para_combo)))

\* lines 84-88: one equation with unary
AssembleUnary(number_combo, operations_combo, para_combo, para_combo2, un, length, single_positions) ==
    Flatten(InsertAll(roundrobin(number_combo, operations_combo),
                      parentheses_with_unary(para_combo, para_combo2, un,
                                             length, single_positions)))

\* line 52: the operand orderings
NumberCombos(nums, fixed) ==
    LET tokens == [i \in DOMAIN nums |-> Str(nums[i])]
    IN  IF ~fixed THEN distinct_permutations(tokens) ELSE <<tokens>>

\* line 82: the selections the loop skips
TooManyFactorials(un, para_combo2, max_fact) ==
    un = "factorial" /\ Len(para_combo2) > max_fact

\* line 53 raising for a repeat of 0 as well
EquationsRaisesWithoutGaps(nums) == Len(nums) - 1 <= 0

\* line 53: itertools.product raises ValueError for a negative repeat
EquationsRaises(nums) == Len(nums) - 1 < 0

\* the list equations() returns for the arguments in the variables
equations ==
    LET length == Len(numbers)
        number_combos == NumberCombos(numbers, fixed_order)
        operations_combos == product(operations, length - 1)
        para_combos == IF insert_paras THEN parentheses_combos(length, 0) ELSE {{}}
        whole == {<<0, length>>}
        single_positions == {<<i, i + 1>> : i \in 0..(length - 1)}
        Candidates(para_combo) ==
            IF ~singles THEN para_combo \cup whole
            ELSE para_combo \cup whole \cup single_positions
        OfParaCombo(number_combo, operations_combo, para_combo) ==
            IF unary = "None"
            THEN <<Assemble(number_combo, operations_combo, para_combo)>>
            ELSE FlatMap(LAMBDA para_combo2 :
                            IF TooManyFactorials(unary, para_combo2, max_factorials)
                            THEN <<>>
                            ELSE <<AssembleUnary(number_combo, operations_combo,
                                                 para_combo, para_combo2, unary,
                                                 length, single_positions)>>,
                         powerset(IterPairs(Candidates(para_combo))))
        OfOperationsCombo(number_combo, operations_combo) ==
            IF TooManyPowers(operations_combo, max_consecutive_powers) THEN <<>>
            ELSE FlatMap(LAMBDA para_combo :
                            OfParaCombo(number_combo, operations_combo, para_combo),
                         IterCombos(para_combos))
    IN  FlatMap(LAMBDA number_combo :
                    FlatMap(LAMBDA operations_combo :
                                OfOperationsCombo(number_combo, operations_combo),
                            operations_combos),
                number_combos)

-----------------------------------------------------------------------------
(* eval(equation), line 157: Python's evaluation of the expressions that   *)
(* equations() builds from digits, the operators + - * / ** (and '', which *)
(* joins its neighbours), parentheses and calls of a named function.  An   *)
(* int is [n, d = 1, float = FALSE]; a float is the exact quotient n/d     *)
(* with float = TRUE, which is the float Python computes as long as the    *)
(* quotient is a float (the calls below keep to such values).              *)

\* the names that lines 7-8 bind in the module, where eval looks them up
BoundNames ==
    {NameOf("neg"), NameOf("floor"), NameOf("factorial"),
     <<"c", "e", "i", "l">>, <<"s", "q", "r", "t">>}

Letters == UNION {Range(NameOf(un)) : un \in {"neg", "floor", "factorial", "log"}}
               \cup {"c", "e", "i", "l", "s", "q", "r", "t"}

RECURSIVE TakeWhile(_, _)
TakeWhile(S, s) ==
    IF s # <<>> /\ Head(s) \in S THEN <<Head(s)>> \o TakeWhile(S, Tail(s)) ELSE <<>>

RECURSIVE Tokenize(_)
\* the tokens of an expression: numbers, names, operators and parentheses
Tokenize(s) ==
    IF s = <<>> THEN <<>>
    ELSE IF Head(s) \in Digits
    THEN LET run == TakeWhile(Digits, s)
         IN  <<[t |-> "num", s |-> run]>> \o Tokenize(SubSeq(s, Len(run) + 1, Len(s)))
    ELSE IF Head(s) \in Letters
    THEN LET run == TakeWhile(Letters, s)
         IN  <<[t |-> "name", s |-> run]>> \o Tokenize(SubSeq(s, Len(run) + 1, Len(s)))
    ELSE IF Len(s) >= 2 /\ SubSeq(s, 1, 2) = PowerOp
    THEN <<[t |-> "op", s |-> PowerOp]>> \o Tokenize(SubSeq(s, 3, Len(s)))
    ELSE <<[t |-> "op", s |-> <<Head(s)>>]>> \o Tokenize(Tail(s))

IsOp(ts, ops) == ts # <<>> /\ Head(ts).t = "op" /\ Head(ts).s \in ops

Failed == [ok |-> FALSE]

\* a decimal literal may not start with 0 unless it is all zeros
NumberOK(run) == Len(run) = 1 \/ run[1] # "0" \/ Range(run) = {"0"}

RECURSIVE ParseExpr(_)
RECURSIVE ParseTerm(_)
RECURSIVE ParseTermRest(_, _)
RECURSIVE ParseExprRest(_, _)
RECURSIVE ParseFactor(_)
RECURSIVE ParseTrailers(_, _)

\* a parsed expression e followed by its closing parenthesis
CloseParen(e) ==
    IF e.ok /\ IsOp(e.rest, {<<")">>})
    THEN [ok |-> TRUE, node |-> e.node, rest |-> Tail(e.rest)]
    ELSE Failed

\* atom: a number, a name, or a parenthesised expression
ParseAtom(ts) ==
    IF ts = <<>> THEN Failed
    ELSE IF Head(ts).t = "num"
    THEN IF NumberOK(Head(ts).s)
         THEN [ok |-> TRUE, node |-> [k |-> "num", s |-> Head(ts).s], rest |-> Tail(ts)]
         ELSE Failed
    ELSE IF Head(ts).t = "name"
    THEN [ok |-> TRUE, node |-> [k |-> "name", s |-> Head(ts).s], rest |-> Tail(ts)]
    ELSE IF IsOp(ts, {<<"(">>})
    THEN CloseParen(ParseExpr(Tail(ts)))
    ELSE Failed

\* the call of the expression f with the parsed argument e, and what follows
CallTrailer(f, e) ==
    IF e.ok THEN ParseTrailers([k |-> "call", f |-> f, a |-> e.node], e.rest)
    ELSE Failed

\* primary: an atom followed by any number of calls
ParseTrailers(node, ts) ==
    IF IsOp(ts, {<<"(">>})
    THEN CallTrailer(node, CloseParen(ParseExpr(Tail(ts))))
    ELSE [ok |-> TRUE, node |-> node, rest |-> ts]

Trailers(a) == IF a.ok THEN ParseTrailers(a.node, a.rest) ELSE Failed

ParsePrimary(ts) == Trailers(ParseAtom(ts))

\* the binary node of an operator, its left operand and its parsed right one
Bin(op, left, r) ==
    IF r.ok
    THEN [ok |-> TRUE, rest |-> r.rest,
          node |-> [k |-> "bin", op |-> op, l |-> left, r |-> r.node]]
    ELSE Failed

\* power: primary ['**' factor], right associative
PowerOf(p) ==
    IF ~p.ok THEN Failed
    ELSE IF IsOp(p.rest, {PowerOp})
    THEN Bin(PowerOp, p.node, ParseFactor(Tail(p.rest)))
    ELSE p

ParseFactor(ts) == PowerOf(ParsePrimary(ts))

TermMore(b) == IF b.ok THEN ParseTermRest(b.node, b.rest) ELSE Failed

\* term: factor (('*' | '/') factor)*, left associative
ParseTermRest(left, ts) ==
    IF IsOp(ts, {Times, Divide})
    THEN TermMore(Bin(Head(ts).s, left, ParseFactor(Tail(ts))))
    ELSE [ok |-> TRUE, node |-> left, rest |-> ts]

ParseTerm(ts) == TermMore(ParseFactor(ts))

ExprMore(b) == IF b.ok THEN ParseExprRest(b.node, b.rest) ELSE Failed

\* expr: term (('+' | '-') term)*, left associative
ParseExprRest(left, ts) ==
    IF IsOp(ts, {Plus, Minus})
    THEN ExprMore(Bin(Head(ts).s, left, ParseTerm(Tail(ts))))
    ELSE [ok |-> TRUE, node |-> left, rest |-> ts]

ParseExpr(ts) == ExprMore(ParseTerm(ts))

\* the whole string must be one expression
WholeString(e) == IF e.ok /\ e.rest = <<>> THEN e ELSE Failed

Parse(s) == WholeString(ParseExpr(Tokenize(s)))

RECURSIVE GCD(_, _)
GCD(a, b) == IF b = 0 THEN a ELSE GCD(b, a % b)

Abs(x) == IF x < 0 THEN -x ELSE x

\* the quotient n/d in lowest terms with a positive denominator
Quot(n, d, float) ==
    LET g == GCD(Abs(n), Abs(d))
        sgn == IF d < 0 THEN -1 ELSE 1
    IN  [n |-> sgn * (n \div g), d |-> sgn * (d \div g), float |-> float]

Value(v) == [err |-> "None", v |-> v]

Raise(type) == [err |-> type]

RECURSIVE IntPow(_, _)
IntPow(b, e) == IF e = 0 THEN 1 ELSE b * IntPow(b, e - 1)

RECURSIVE Factorial(_)
Factorial(n) == IF n <= 1 THEN 1 ELSE n * Factorial(n - 1)

RECURSIVE DigitsValue(_)
DigitsValue(run) ==
    IF run = <<>> THEN 0
    ELSE 10 * DigitsValue(SubSeq(run, 1, Len(run) - 1)) + (Ord(run[Len(run)]) - 1)

\* a binary operator on two numbers
BinOp(op, a, b) ==
    LET float == a.float \/ b.float
    IN  CASE op = Plus   -> Value(Quot(a.n * b.d + b.n * a.d, a.d * b.d, float))
          [] op = Minus  -> Value(Quot(a.n * b.d - b.n * a.d, a.d * b.d, float))
          [] op = Times  -> Value(Quot(a.n * b.n, a.d * b.d, float))
          [] op = Divide -> IF b.n = 0 THEN Raise("ZeroDivisionError")
                            ELSE Value(Quot(a.n * b.d, a.d * b.n, TRUE))
          [] op = PowerOp /\ b.d = 1 ->
                IF b.n >= 0
                THEN Value(Quot(IntPow(a.n, b.n), IntPow(a.d, b.n), float))
                ELSE IF a.n = 0 THEN Raise("ZeroDivisionError")
                ELSE Value(Quot(IntPow(a.d, -b.n), IntPow(a.n, -b.n), TRUE))

\* a call of one of the functions lines 7-8 import
Apply(name, a) ==
    CASE name = NameOf("neg") -> Value([a EXCEPT !.n = -a.n])
      [] name = NameOf("floor") -> Value([n |-> a.n \div a.d, d |-> 1, float |-> FALSE])
      [] name = <<"c", "e", "i", "l">> ->
            Value([n |-> -((-a.n) \div a.d), d |-> 1, float |-> FALSE])
      [] name = NameOf("factorial") ->
            IF a.float THEN Raise("TypeError")
            ELSE IF a.n < 0 THEN Raise("ValueError")
            ELSE Value([n |-> Factorial(a.n), d |-> 1, float |-> FALSE])

RECURSIVE Evaluate(_)
\* the value of a parsed expression, or the first exception its evaluation
\* raises: the callee of a call is evaluated before its argument
Evaluate(node) ==
    CASE node.k = "num" -> Value([n |-> DigitsValue(node.s), d |-> 1, float |-> FALSE])
      [] node.k = "bin" ->
            LET l == Evaluate(node.l)
            IN  IF l.err # "None" THEN l
                ELSE LET r == Evaluate(node.r)
                     IN  IF r.err # "None" THEN r ELSE BinOp(node.op, l.v, r.v)
      [] node.k = "call" /\ node.f.k = "name" ->
            IF node.f.s \notin BoundNames THEN Raise("NameError")
            ELSE LET a == Evaluate(node.a)
                 IN  IF a.err # "None" THEN a ELSE Apply(node.f.s, a.v)
      [] node.k = "call" /\ node.f.k # "name" ->
            LET f == Evaluate(node.f)
            IN  IF f.err # "None" THEN f
                ELSE LET a == Evaluate(node.a)
                     IN  IF a.err # "None" THEN a ELSE Raise("TypeError")

\* eval(equation): compiling comes first, so a syntax error wins
Compiled(e) == IF ~e.ok THEN Raise("SyntaxError") ELSE Evaluate(e.node)

Eval(equation) == Compiled(Parse(equation))

-----------------------------------------------------------------------------
(* solve, lines 128-163. *)

\* line 159: the exceptions the loop catches
Caught ==
    {"ZeroDivisionError", "SyntaxError", "TypeError", "ValueError",
     "OverflowError", "AttributeError"}

\* lines 149-152: a goal that cannot be iterated becomes a one-element list
GoalsList(g) == IF g.iterable THEN g.value ELSE <<g.value>>

\* line 161: result in goals
InGoals(v, glist) == v.d = 1 /\ v.n \in Range(glist)

\* line 162 putting the equation first
PrependHit(h, key, equation) == [h EXCEPT ![key] = <<equation>> \o @]

\* line 162: hits[result].append(equation)
AppendHit(h, key, equation) == [h EXCEPT ![key] = Append(@, equation)]

-----------------------------------------------------------------------------
(* The calls the model makes. *)

\* the default `operations`, '+-*/'
DefaultOperations == <<Plus, Minus, Times, Divide>>

NumbersChoices ==
    {<<>>, <<3>>, <<1, 0>>, <<1, 1>>, <<1, 2, 3>>, <<2, 1, 2>>, <<1, 2, 3, 4>>}

OperationsChoices ==
    {<<>>, <<Plus>>, <<Plus, PowerOp>>, <<Times, PowerOp>>, DefaultOperations}

UnaryChoices == {"None", "neg", "factorial"}

\* the keyword arguments a call does not read keep their defaults, and the
\* longest operand lists come with the arguments that keep the output small
EquationsArgsOK ==
    /\ unary = "None" => ~singles
    /\ unary # "factorial" => max_factorials = 1
    /\ PowerOp \notin Range(operations) => max_consecutive_powers = 1
    /\ Len(numbers) < 4 => iteration_order = "ascending"
    /\ Len(numbers) >= 4 => fixed_order /\ Len(operations) <= 2
    /\ Len(numbers) >= 4 /\ unary # "None" => Len(operations) <= 1
    /\ Len(numbers) >= 3 /\ unary # "None" => Len(operations) <= 2

InitEquations ==
    /\ entry = "equations"
    /\ last = 0 /\ goals = <<>>
    /\ numbers \in NumbersChoices
    /\ operations \in OperationsChoices
    /\ unary \in UnaryChoices
    /\ singles \in BOOLEAN /\ insert_paras \in BOOLEAN /\ fixed_order \in BOOLEAN
    /\ max_consecutive_powers \in 0..MaxPowers
    /\ max_factorials \in 0..MaxFactorialsArg
    /\ iteration_order \in {"ascending", "descending"}
    /\ EquationsArgsOK

InitParenthesesCombos ==
    /\ entry = "parentheses_combos"
    /\ last \in 0..MaxLast
    /\ goals = <<>> /\ numbers = <<>> /\ operations = <<>> /\ unary = "None"
    /\ singles = FALSE /\ insert_paras = TRUE /\ fixed_order = FALSE
    /\ max_consecutive_powers = 1 /\ max_factorials = 1
    /\ iteration_order = "ascending"

SolveNumbers == {<<>>, <<1, 0>>, <<1, 1>>, <<1, 2, 3>>}

SolveOperations ==
    {<<>>, <<Plus>>, <<Divide>>, <<Concat, Plus>>, <<Minus, PowerOp>>, DefaultOperations}

SolveUnary == {"None", "neg", "factorial", "log"}

\* a scalar goal, or a collection of goals
ScalarGoals == {5, 6}

IterableGoals == {<<0, 5>>, <<2, 6, 2>>}

IsSolveGoals(g) ==
    \/ \E v \in ScalarGoals : g = [iterable |-> FALSE, value |-> v]
    \/ \E v \in IterableGoals : g = [iterable |-> TRUE, value |-> v]

\* as EquationsArgsOK: the longest operand lists come with fewer choices
SolveArgsOK ==
    /\ unary = "None" => ~singles
    /\ Len(numbers) >= 3 /\ unary # "None" => fixed_order /\ Len(operations) <= 2
    /\ Len(numbers) >= 3 /\ Len(operations) >= 4 => ~goals.iterable
    /\ Len(numbers) >= 3 /\ unary = "factorial" => Concat \notin Range(operations)

InitSolve ==
    /\ entry = "solve"
    /\ last = 0
    /\ IsSolveGoals(goals)
    /\ numbers \in SolveNumbers
    /\ operations \in SolveOperations
    /\ unary \in SolveUnary
    /\ singles \in BOOLEAN /\ insert_paras \in BOOLEAN /\ fixed_order \in BOOLEAN
    /\ max_consecutive_powers = 1 /\ max_factorials = 1
    /\ iteration_order = "ascending"
    /\ SolveArgsOK

Init ==
    /\ InitParenthesesCombos \/ InitEquations \/ InitSolve
    /\ pc = "call" /\ combos = {} /\ goal_list = <<>> /\ eqs = <<>> /\ index = 0
    /\ hits = <<>> /\ exception = "None"

\* a direct call of parentheses_combos(last)
ParenthesesCombosCall ==
    /\ entry = "parentheses_combos" /\ pc = "call"
    /\ combos' = parentheses_combos(last, 0)
    /\ pc' = "returned"
    /\ UNCHANGED <<args, goal_list, eqs, index, hits, exception>>

\* a direct call of equations(numbers, operations, unary, ...)
EquationsCall ==
    /\ entry = "equations" /\ pc = "call"
    /\ IF EquationsRaises(numbers)
       THEN pc' = "raised" /\ exception' = "ValueError" /\ eqs' = eqs
       ELSE pc' = "returned" /\ exception' = exception /\ eqs' = equations
    /\ UNCHANGED <<args, combos, goal_list, index, hits>>

\* solve, lines 149-155: the goals, the empty hits, and the call of equations
SolveCall ==
    /\ entry = "solve" /\ pc = "call"
    /\ goal_list' = GoalsList(goals)
    /\ IF EquationsRaises(numbers)
       THEN /\ pc' = "raised" /\ exception' = "ValueError"
            /\ UNCHANGED <<eqs, index>>
       ELSE /\ pc' = "loop" /\ exception' = exception
            /\ eqs' = equations
            /\ index' = 1
    /\ hits' = [goal \in Range(GoalsList(goals)) |-> <<>>]
    /\ UNCHANGED <<args, combos>>

\* solve, lines 155-162: one pass of the loop over the equations
SolveEval ==
    /\ entry = "solve" /\ pc = "loop" /\ index <= Len(eqs)
    /\ LET equation == eqs[index]
           result   == Eval(equation)
       IN  IF result.err \in Caught
           THEN index' = index + 1 /\ UNCHANGED <<pc, hits, exception>>
           ELSE IF result.err # "None"
           THEN pc' = "raised" /\ exception' = result.err /\ UNCHANGED <<index, hits>>
           ELSE /\ hits' = IF InGoals(result.v, goal_list)
                           THEN AppendHit(hits, result.v.n, equation)
                           ELSE hits
                /\ index' = index + 1
                /\ UNCHANGED <<pc, exception>>
    /\ UNCHANGED <<args, combos, goal_list, eqs>>

\* solve, line 163
SolveReturn ==
    /\ entry = "solve" /\ pc = "loop" /\ index > Len(eqs)
    /\ pc' = "returned"
    /\ UNCHANGED <<args, combos, goal_list, eqs, index, hits, exception>>

Next ==
    \/ ParenthesesCombosCall
    \/ EquationsCall
    \/ SolveCall
    \/ SolveEval
    \/ SolveReturn

Spec == Init /\ [][Next]_vars

-----------------------------------------------------------------------------
(* What can be read off an expression.  Every operand of the calls above   *)
(* is a single digit, so each digit of an expression is one operand.       *)

EquationsReturned ==
    \/ entry = "equations" /\ pc = "returned"
    \/ entry = "solve" /\ pc \in {"loop", "returned"}

\* the operand tokens of an expression, in order
OperandsOf(e) == LET ds == SelectSeq(e, LAMBDA c : c \in Digits)
                 IN  [i \in DOMAIN ds |-> <<ds[i]>>]

\* the expression without parentheses and function names
Bare(e) == SelectSeq(e, LAMBDA c : c \notin {"(", ")"} \cup Letters)

\* the operator in each gap between two operands
OpsOf(e) ==
    LET b   == Bare(e)
        pos == SelectSeq([i \in DOMAIN b |-> i], LAMBDA i : b[i] \in Digits)
    IN  [g \in 1..(Len(pos) - 1) |-> SubSeq(b, pos[g] + 1, pos[g + 1] - 1)]

\* k consecutive '**' in an operator assignment
HasPowerRun(assignment, k) ==
    \E i \in 1..(Len(assignment) - k + 1) :
        \A j \in 0..(k - 1) : assignment[i + j] = PowerOp

RECURSIVE Walk(_, _, _, _, _)
\* the parentheses of e matched from left to right: each matched pair as
\* [l, r, call], the operands l..r-1 it encloses and whether its '(' is the
\* one of a function call; ok is whether the parentheses are balanced
Walk(e, i, stack, seen, acc) ==
    IF i > Len(e) THEN [ok |-> stack = <<>>, spans |-> acc]
    ELSE IF e[i] = "("
    THEN Walk(e, i + 1,
              <<[l |-> seen, call |-> i > 1 /\ e[i - 1] \in Letters]>> \o stack,
              seen, acc)
    ELSE IF e[i] = ")"
    THEN IF stack = <<>> THEN [ok |-> FALSE, spans |-> acc]
         ELSE Walk(e, i + 1, Tail(stack), seen,
                   acc \cup {[l |-> Head(stack).l, r |-> seen, call |-> Head(stack).call]})
    ELSE Walk(e, i + 1, stack, IF e[i] \in Digits THEN seen + 1 ELSE seen, acc)

Balanced(e) == Walk(e, 1, <<>>, 0, {}).ok

\* the pairs (l, r) of all matched parentheses of e
ParenPairs(e) == {<<s.l, s.r>> : s \in Walk(e, 1, <<>>, 0, {}).spans}

\* the pairs (l, r) that a function call of e encloses
CallSpans(e) == {<<s.l, s.r>> : s \in {t \in Walk(e, 1, <<>>, 0, {}).spans : t.call}}

\* how often the string `part` occurs in e
Occurrences(part, e) ==
    Cardinality({i \in 1..(Len(e) - Len(part) + 1) :
                    SubSeq(e, i, i + Len(part) - 1) = part})

\* '(' stands right before an operand or another '(', ')' right after an
\* operand or another ')'
ParenthesesTouchOperands(e) ==
    \A i \in DOMAIN e :
        /\ e[i] = "(" => i < Len(e) /\ e[i + 1] \in Digits \cup {"("}
        /\ e[i] = ")" => i > 1 /\ e[i - 1] \in Digits \cup {")"}

-----------------------------------------------------------------------------
(* C1: parentheses_combos(n) is the set of all families of pairs (l, r)    *)
(* with 0 <= l < r <= n and r - l >= 2, none of them the whole span        *)
(* (0, n), any two of them disjoint or nested; the empty family is a       *)
(* member, and parentheses_combos(4) is the 11 families of the docstring.  *)

PairsOf(n) == {p \in (0..n) \X (0..n) : p[2] - p[1] >= 2 /\ p # <<0, n>>}

DisjointOrNested(p, q) ==
    \/ p[2] <= q[1] \/ q[2] <= p[1]
    \/ q[1] <= p[1] /\ p[2] <= q[2]
    \/ p[1] <= q[1] /\ q[2] <= p[2]

FamiliesOf(n) == {F \in SUBSET PairsOf(n) : \A p, q \in F : DisjointOrNested(p, q)}

\* line 19: the example of the docstring
Docstring4 ==
    {{<<0, 2>>, <<2, 4>>}, {<<1, 4>>}, {<<1, 3>>, <<1, 4>>}, {<<2, 4>>}, {<<1, 3>>},
     {<<2, 4>>, <<1, 4>>}, {<<0, 3>>}, {<<0, 2>>, <<0, 3>>}, {<<0, 3>>, <<1, 3>>},
     {}, {<<0, 2>>}}

C1_CombosAreAllNestings ==
    (entry = "parentheses_combos" /\ pc = "returned") =>
        /\ combos = FamiliesOf(last)
        /\ {} \in combos
        /\ last = 4 => combos = Docstring4 /\ Cardinality(combos) = 11

C1_Witness ==
    /\ entry = "parentheses_combos" /\ pc = "returned" /\ last = 5
    /\ {<<0, 4>>, <<0, 3>>, <<1, 3>>} \in combos

-----------------------------------------------------------------------------
(* C2: solve returns a mapping whose keys are exactly the requested goals  *)
(* (a scalar goal counts as a one-element collection), and the list of a   *)
(* goal g is the subsequence, in generation order, of the equations whose  *)
(* evaluation succeeds with a value equal to g; a goal no equation reaches *)
(* has the empty list.                                                     *)

RequestedGoals == IF goals.iterable THEN Range(goals.value) ELSE {goals.value}

EvaluatesTo(e, g) ==
    LET result == Eval(e)
    IN  result.err = "None" /\ result.v.d = 1 /\ result.v.n = g

C2_HitsAreTheMatchingEquations ==
    (entry = "solve" /\ pc = "returned") =>
        /\ DOMAIN hits = RequestedGoals
        /\ \A g \in RequestedGoals :
               hits[g] = SelectSeq(eqs, LAMBDA e : EvaluatesTo(e, g))

C2_Witness ==
    /\ entry = "solve" /\ pc = "returned"
    /\ goals.iterable /\ goals.value = <<0, 5>> /\ numbers = <<1, 0>>
    /\ Len(hits[0]) >= 2 /\ hits[5] = <<>>
    /\ \E i \in DOMAIN eqs : Eval(eqs[i]).err = "ZeroDivisionError"

-----------------------------------------------------------------------------
(* C3: no fault raised while one candidate is evaluated leaves solve: the  *)
(* candidate is dropped and the loop goes on.                              *)

C3_NoEvaluationFaultLeavesSolve ==
    ~(entry = "solve" /\ pc = "raised" /\ index >= 1)

-----------------------------------------------------------------------------
(* C4: for a call with at least one operand and, when there are several,   *)
(* at least one operator, the operand orderings in the output of           *)
(* equations() are the given order alone when fixed_order is True, and     *)
(* every distinct permutation of the operands otherwise, none of them used *)
(* twice (without unary, no equation is generated twice); so solve lists   *)
(* "1+2+3" for goal 6 and numbers [1, 2, 3] either way, and "3+2+1" only   *)
(* when fixed_order is False.                                              *)

Tokens == [i \in DOMAIN numbers |-> Str(numbers[i])]

OrderingsOfTokens ==
    LET n == Len(numbers)
    IN  {[i \in 1..n |-> Tokens[p[i]]] :
            p \in {q \in [1..n -> 1..n] : \A i, j \in 1..n : q[i] = q[j] => i = j}}

E123 == <<"1", "+", "2", "+", "3">>

E321 == <<"3", "+", "2", "+", "1">>

C4_OperandOrderings ==
    /\ (EquationsReturned /\ (Len(numbers) > 1 => operations # <<>>)) =>
          /\ {OperandsOf(e) : e \in Range(eqs)} =
                 IF fixed_order THEN {Tokens} ELSE OrderingsOfTokens
          /\ unary = "None" => \A i, j \in DOMAIN eqs : eqs[i] = eqs[j] => i = j
    /\ (entry = "solve" /\ pc = "returned" /\ numbers = <<1, 2, 3>>
            /\ operations = DefaultOperations /\ unary = "None"
            /\ 6 \in RequestedGoals) =>
          /\ E123 \in Range(hits[6])
          /\ E321 \in Range(hits[6]) <=> ~fixed_order

C4_Witness ==
    /\ entry = "solve" /\ pc = "returned" /\ numbers = <<1, 2, 3>>
    /\ operations = DefaultOperations /\ ~fixed_order
    /\ E123 \in Range(hits[6]) /\ E321 \in Range(hits[6])

-----------------------------------------------------------------------------
(* C5: equations() generates expressions for an assignment of one operator *)
(* to each of the N-1 gaps exactly when the assignment has no run of       *)
(* max_consecutive_powers + 1 consecutive '**'.                            *)

C5_AssignmentsWithoutPowerRun ==
    EquationsReturned =>
        {OpsOf(e) : e \in Range(eqs)} =
            {a \in Range(product(operations, Len(numbers) - 1)) :
                ~HasPowerRun(a, max_consecutive_powers + 1)}

C5_Witness ==
    /\ entry = "equations" /\ pc = "returned"
    /\ Len(numbers) = 4 /\ max_consecutive_powers = 2
    /\ \E e \in Range(eqs) : OpsOf(e) = <<PowerOp, PowerOp, Plus>>
    /\ <<PowerOp, PowerOp, PowerOp>> \in Range(product(operations, 3))

-----------------------------------------------------------------------------
(* C6: a call with no operands, or with several operands and no operator,  *)
(* raises an error instead of returning.                                   *)

InvalidConfiguration ==
    Len(numbers) = 0 \/ (Len(numbers) > 1 /\ operations = <<>>)

C6_InvalidConfigurationRaises ==
    (entry \in {"equations", "solve"} /\ InvalidConfiguration) => pc # "returned"

(* C6 as amended: a call with no operands raises ValueError before any     *)
(* equation is evaluated, and equations() raises in no other case; a call  *)
(* with several operands and no operator raises nothing: equations()       *)
(* returns the empty list and solve() maps every requested goal to the     *)
(* empty list.                                                             *)
C6_OnlyEmptyOperandsRaise ==
    /\ (entry \in {"equations", "solve"} /\ pc # "call" /\ Len(numbers) = 0) =>
          pc = "raised" /\ exception = "ValueError" /\ index = 0
    /\ (entry = "equations" /\ pc = "raised") => Len(numbers) = 0
    /\ (entry \in {"equations", "solve"} /\ pc # "call"
            /\ Len(numbers) > 1 /\ operations = <<>>) =>
          /\ pc # "raised" /\ eqs = <<>>
          /\ entry = "solve" =>
                DOMAIN hits = RequestedGoals /\ \A g \in DOMAIN hits : hits[g] = <<>>

C6_Witness ==
    /\ entry = "solve" /\ pc = "returned"
    /\ Len(numbers) > 1 /\ operations = <<>> /\ eqs = <<>>

-----------------------------------------------------------------------------
(* C7: with insert_paras False an expression has no parenthesis except     *)
(* those of `unary` applied to one operand when singles is True.           *)

C7_NoParenthesesWithoutInsertParas ==
    (entry = "equations" /\ pc = "returned" /\ ~insert_paras) =>
        \A e \in Range(eqs) : \A i \in DOMAIN e :
            /\ e[i] = "(" =>
                   /\ singles /\ i > 1 /\ e[i - 1] \in Letters
                   /\ i + 2 <= Len(e) /\ e[i + 1] \in Digits /\ e[i + 2] = ")"
            /\ e[i] = ")" =>
                   /\ singles /\ i > 3 /\ e[i - 1] \in Digits /\ e[i - 2] = "("
                   /\ e[i - 3] \in Letters

-----------------------------------------------------------------------------
(* C8: with unary = math.factorial every expression applies the function   *)
(* at most max_factorials times.                                           *)

C8_AtMostMaxFactorials ==
    (entry = "equations" /\ pc = "returned" /\ unary = "factorial") =>
        \A e \in Range(eqs) :
            Occurrences(UnaryOpen("factorial"), e) <= max_factorials

-----------------------------------------------------------------------------
(* C9: for every structure and every selection, the expression assembled   *)
(* from the tokens of parentheses_with_unary applies the function to       *)
(* exactly the spans of the selected pairs, whatever the order the pairs   *)
(* of the structure are iterated in.                                       *)

C9_UnaryWrapsTheSelectedPairs ==
    (entry = "equations" /\ pc = "returned" /\ unary # "None" /\ eqs # <<>>) =>
        LET length == Len(numbers)
            single_positions == {<<i, i + 1>> : i \in 0..(length - 1)}
            para_combos == IF insert_paras THEN parentheses_combos(length, 0) ELSE {{}}
            operations_combo == product(operations, length - 1)[1]
        IN  \A para_combo \in para_combos :
                \A para_combo2 \in Range(powerset(IterPairs(
                        para_combo \cup {<<0, length>>}
                            \cup (IF singles THEN single_positions ELSE {})))) :
                    CallSpans(AssembleUnary(Tokens, operations_combo, para_combo,
                                            para_combo2, unary, length,
                                            single_positions))
                        = Range(para_combo2)

-----------------------------------------------------------------------------
(* C10: without unary, for every structure of parentheses_combos(N), every *)
(* operand ordering and every operator assignment, the assembled           *)
(* expression has one '(' right before operand l and its matching ')'      *)
(* right after operand r-1 for each pair (l, r) of the structure, no other *)
(* parenthesis, balanced parentheses, and the operands and operators in    *)
(* their original order; and it is one of the equations generated.         *)

C10_ParenthesesAtTheirPairs ==
    (entry = "equations" /\ pc = "returned" /\ unary = "None") =>
        LET length == Len(numbers)
        IN  \A number_combo \in Range(NumberCombos(numbers, fixed_order)) :
            \A operations_combo \in Range(product(operations, length - 1)) :
            \A para_combo \in parentheses_combos(length, 0) :
                LET e == Assemble(number_combo, operations_combo, para_combo)
                IN  /\ Balanced(e)
                    /\ ParenPairs(e) = para_combo
                    /\ Occurrences(<<"(">>, e) = Cardinality(para_combo)
                    /\ Occurrences(<<")">>, e) = Cardinality(para_combo)
                    /\ ParenthesesTouchOperands(e)
                    /\ Bare(e) = Flatten(roundrobin(number_combo, operations_combo))
                    /\ (insert_paras /\ ~HasPowerRun(operations_combo,
                                                     max_consecutive_powers + 1))
                           => e \in Range(eqs)

C10_Witness ==
    /\ entry = "equations" /\ pc = "returned" /\ unary = "None"
    /\ Len(numbers) = 4 /\ insert_paras
    /\ \E e \in Range(eqs) :
           /\ ParenPairs(e) = {<<0, 2>>, <<0, 3>>}
           /\ SubSeq(e, 1, 3) = <<"(", "(", "1">>
=============================================================================
